---- MODULE Spec2Model ----
(***************************************************************************)
(* The request admission pipeline of the Acquisitions backend:             *)
(* attachUserFromToken (identity resolver) followed by securityMiddleware  *)
(* (admission controller), for requests served concurrently by the event   *)
(* loop.  A JavaScript value that may be `undefined` is a sequence of      *)
(* length 0 (undefined) or 1 (the value).                                  *)
(***************************************************************************)
EXTENDS Integers, Sequences, FiniteSets, TLC

Undefined == << >>
Some(x) == << x >>
IsDefined(o) == o # Undefined
ValueOf(o) == o[1]

\* The connections on which requests arrive; a connection carries one request
\* at a time and takes the next one when the previous is finished.
Conns == {"c1", "c2"}

VARIABLES
    req,    \* per connection: the request in flight and what was done to it
    hits,   \* the provider's count of requests in the current window, per rule key
    db      \* the users table: per id, the stored row or none

vars == << req, hits, db >>

(***************************************************************************)
(* Credentials.  A token is an opaque string; jwttoken.verify either       *)
(* returns its payload or throws.                                          *)
(***************************************************************************)
ValidTokens == {"tokAdmin", "tokUser", "tokModerator"}
InvalidTokens == {"tokExpired", "tokTampered", "tokMalformed"}
Tokens == ValidTokens \cup InvalidTokens

TokenPayload(t) ==
    CASE t = "tokAdmin"     -> [id |-> 1, email |-> "admin@x.io", role |-> "admin"]
      [] t = "tokUser"      -> [id |-> 2, email |-> "user@x.io", role |-> "user"]
      [] t = "tokModerator" -> [id |-> 3, email |-> "mod@x.io", role |-> "moderator"]
      [] t = "tokExpired"   -> [id |-> 1, email |-> "admin@x.io", role |-> "admin"]
      [] t = "tokTampered"  -> [id |-> 2, email |-> "user@x.io", role |-> "admin"]
      [] OTHER              -> [id |-> 0, email |-> "", role |-> ""]

\* jwttoken.verify(token): the payload, or a thrown error with its message.
JwtVerify(t) ==
    IF t \in ValidTokens
    THEN [threw |-> FALSE, payload |-> TokenPayload(t), error |-> ""]
    ELSE [threw |-> TRUE, payload |-> TokenPayload("tokMalformed"),
          error |-> CASE t = "tokExpired"  -> "jwt expired"
                      [] t = "tokTampered" -> "invalid signature"
                      [] OTHER             -> "jwt malformed"]

\* An Authorization header is the string prefix \o rest; a prefix of "Bearer "
\* is what startsWith('Bearer ') tests and rest is substring(7).
AuthHeaders ==
    {Undefined} \cup
    {Some([prefix |-> "Bearer ", rest |-> t]) : t \in Tokens \cup {""}} \cup
    {Some([prefix |-> "Basic ", rest |-> "dXNlcg=="])}

\* The requests served: every header without a cookie, a cookie without a
\* header, and the cookie/header conflicts.
RequestInputs ==
    {[cookie |-> Undefined, auth |-> h] : h \in AuthHeaders} \cup
    {[cookie |-> Some("tokAdmin"), auth |-> Undefined]} \cup
    {[cookie |-> Some("tokExpired"),
      auth |-> Some([prefix |-> "Bearer ", rest |-> "tokAdmin"])],
     [cookie |-> Some("tokAdmin"),
      auth |-> Some([prefix |-> "Bearer ", rest |-> "tokTampered"])],
     [cookie |-> Some(""),
      auth |-> Some([prefix |-> "Bearer ", rest |-> "tokUser"])]}

\* JavaScript truthiness of an optional string.
Truthy(o) == IsDefined(o) /\ ValueOf(o) # ""

(***************************************************************************)
(* What a middleware does to the outside, in order.                        *)
(***************************************************************************)
EvNext == [kind |-> "next", code |-> 0, text |-> ""]
EvWarn(msg) == [kind |-> "warn", code |-> 0, text |-> msg]
EvConsoleError(msg) == [kind |-> "console.error", code |-> 0, text |-> msg]
EvJson(status, msg) == [kind |-> "json", code |-> status, text |-> msg]

RECURSIVE CountKind(_, _)
CountKind(evs, k) ==
    IF evs = << >> THEN 0
    ELSE (IF Head(evs).kind = k THEN 1 ELSE 0) + CountKind(Tail(evs), k)

(***************************************************************************)
(* attachUserFromToken                                                     *)
(***************************************************************************)
\* The sources consulted in the other order: the Bearer header, else the cookie.
ExtractTokenHeaderFirst(cookie, auth) ==
    LET authHeader == IF IsDefined(auth) THEN ValueOf(auth)
                      ELSE [prefix |-> "", rest |-> ""]
    IN  IF authHeader.prefix = "Bearer " /\ authHeader.rest # ""
        THEN Some(authHeader.rest)
        ELSE cookie

\* The token the resolver settles on: the cookie, else the Bearer header.
ExtractToken(cookie, auth) ==
    IF Truthy(cookie) THEN cookie
    ELSE LET authHeader == IF IsDefined(auth) THEN ValueOf(auth)
                           ELSE [prefix |-> "", rest |-> ""]
         IN  IF authHeader.prefix = "Bearer " THEN Some(authHeader.rest)
             ELSE cookie

\* A resolver that also logs a warning when the request has no token.
attachUserFromTokenLogsAbsence(cookie, auth) ==
    LET token == ExtractToken(cookie, auth) IN
    IF ~Truthy(token)
    THEN [user |-> Undefined,
          out |-> << EvWarn("Invalid or expired JWT token"), EvNext >>]
    ELSE LET v == JwtVerify(ValueOf(token)) IN
         IF ~v.threw
         THEN [user |-> Some([id |-> v.payload.id, email |-> v.payload.email,
                              role |-> v.payload.role]),
               out |-> << EvNext >>]
         ELSE [user |-> Undefined,
               out |-> << EvWarn("Invalid or expired JWT token"), EvNext >>]

\* A resolver that copies the email claim into the role field.
attachUserFromTokenWrongField(cookie, auth) ==
    LET token == ExtractToken(cookie, auth) IN
    IF ~Truthy(token)
    THEN [user |-> Undefined, out |-> << EvNext >>]
    ELSE LET v == JwtVerify(ValueOf(token)) IN
         IF ~v.threw
         THEN [user |-> Some([id |-> v.payload.id, email |-> v.payload.email,
                              role |-> v.payload.email]),
               out |-> << EvNext >>]
         ELSE [user |-> Undefined,
               out |-> << EvWarn("Invalid or expired JWT token"), EvNext >>]

\* A strict resolver: a token that fails verification is answered 401.
attachUserFromTokenStrict(cookie, auth) ==
    LET token == ExtractToken(cookie, auth) IN
    IF ~Truthy(token)
    THEN [user |-> Undefined, out |-> << EvNext >>]
    ELSE LET v == JwtVerify(ValueOf(token)) IN
         IF ~v.threw
         THEN [user |-> Some([id |-> v.payload.id, email |-> v.payload.email,
                              role |-> v.payload.role]),
               out |-> << EvNext >>]
         ELSE [user |-> Undefined,
               out |-> << EvWarn("Invalid or expired JWT token"),
                          EvJson(401, "Authentication required") >>]

\* A resolver that decodes the token without verifying it when verification
\* fails.
attachUserFromTokenDecodeOnly(cookie, auth) ==
    LET token == ExtractToken(cookie, auth) IN
    IF ~Truthy(token)
    THEN [user |-> Undefined, out |-> << EvNext >>]
    ELSE LET v == JwtVerify(ValueOf(token)) IN
         IF ~v.threw
         THEN [user |-> Some([id |-> v.payload.id, email |-> v.payload.email,
                              role |-> v.payload.role]),
               out |-> << EvNext >>]
         ELSE [user |-> Some(TokenPayload(ValueOf(token))),
               out |-> << EvWarn("Invalid or expired JWT token"), EvNext >>]

\* A resolver that looks the principal up in the users table: the stored role
\* of the token's id, and no principal when the row is gone.
attachUserFromTokenReadsStore(cookie, auth) ==
    LET token == ExtractToken(cookie, auth) IN
    IF ~Truthy(token)
    THEN [user |-> Undefined, out |-> << EvNext >>]
    ELSE LET v == JwtVerify(ValueOf(token)) IN
         IF ~v.threw
         THEN [user |-> IF v.payload.id \in DOMAIN db /\ IsDefined(db[v.payload.id])
                        THEN Some([id |-> v.payload.id, email |-> v.payload.email,
                                   role |-> ValueOf(db[v.payload.id]).role])
                        ELSE Undefined,
               out |-> << EvNext >>]
         ELSE [user |-> Undefined,
               out |-> << EvWarn("Invalid or expired JWT token"), EvNext >>]

attachUserFromToken(cookie, auth) ==
    LET token == ExtractToken(cookie, auth) IN
    IF ~Truthy(token)
    THEN [user |-> Undefined, out |-> << EvNext >>]
    ELSE LET v == JwtVerify(ValueOf(token)) IN
         IF ~v.threw
         THEN [user |-> Some([id |-> v.payload.id, email |-> v.payload.email,
                              role |-> v.payload.role]),
               out |-> << EvNext >>]
         ELSE [user |-> Undefined,
               out |-> << EvWarn("Invalid or expired JWT token"), EvNext >>]

(***************************************************************************)
(* securityMiddleware, up to the awaited provider call                     *)
(***************************************************************************)
\* The role kept in a variable of the module, shared by the requests in
\* flight: the role of whichever request resolved a principal.
SecurityRoleShared(user) ==
    IF \E d \in Conns : IsDefined(req[d].user) /\ ValueOf(req[d].user).role # ""
    THEN LET d == CHOOSE d \in Conns :
                     IsDefined(req[d].user) /\ ValueOf(req[d].user).role # ""
         IN  ValueOf(req[d].user).role
    ELSE "guest"

\* The default role taken to be 'user'.
SecurityRoleDefaultUser(user) ==
    IF IsDefined(user) /\ ValueOf(user).role # "" THEN ValueOf(user).role
    ELSE "user"

\* const role = req.user?.role || 'guest'
SecurityRole(user) ==
    IF IsDefined(user) /\ ValueOf(user).role # "" THEN ValueOf(user).role
    ELSE "guest"

AdminLimit == 20
UserLimit == 10
GuestLimit == 5

\* The switch with the `break` of the admin case missing: it falls through to
\* the user case.
LimitFallThrough(role) ==
    CASE role = "admin" -> Some(UserLimit)
      [] role = "user"  -> Some(UserLimit)
      [] role = "guest" -> Some(GuestLimit)
      [] OTHER          -> Undefined

\* The switch over the role: `limit` stays undefined when no case matches.
Limit(role) ==
    CASE role = "admin" -> Some(AdminLimit)
      [] role = "user"  -> Some(UserLimit)
      [] role = "guest" -> Some(GuestLimit)
      [] OTHER          -> Undefined

\* '${role}-rate-limit' is written between single quotes: the text is not
\* interpolated and is the same for every role.
RuleName(role) == "${role}-rate-limit"

\* The options object handed to slidingWindow, field for field.
SlidingWindowRule(role) ==
    [node |-> "LIVE", interval |-> "1m", max |-> Limit(role), nam |-> RuleName(role)]

\* A start that writes the role it read into req.user: an assignment where a
\* comparison with 'guest' was meant.
securityMiddlewareStartWritesRole(user) ==
    [user |-> IF IsDefined(user)
              THEN Some([ValueOf(user) EXCEPT !.role = "guest"])
              ELSE user,
     rule |-> Some(SlidingWindowRule(SecurityRole(user)))]

\* securityMiddleware up to its await: what it leaves in req.user and the rule
\* it submits.
securityMiddlewareStart(user) ==
    [user |-> user, rule |-> Some(SlidingWindowRule(SecurityRole(user)))]

(***************************************************************************)
(* The decision provider: the client built by aj.withRule(rule) and its    *)
(* protect(req).  It counts the requests it let into the rule's window and *)
(* reports a rate-limit denial when the window is full.                    *)
(***************************************************************************)
RuleKey(rule) == rule.nam
RuleKeys == {RuleKey(SlidingWindowRule(role)) : role \in {"admin", "user", "guest"}}

WindowFull(rule, count) == IsDefined(rule.max) /\ count >= ValueOf(rule.max)

NoResult == [threw |-> FALSE, denied |-> FALSE,
             bot |-> FALSE, shield |-> FALSE, rateLimit |-> FALSE]

\* A settled protect(): a thrown error, or a decision with its reason flags.
ProtectResult(fails, bot, shield, rule, count) ==
    IF fails THEN [NoResult EXCEPT !.threw = TRUE]
    ELSE [threw |-> FALSE,
          denied |-> bot \/ shield \/ WindowFull(rule, count),
          bot |-> bot, shield |-> shield,
          rateLimit |-> WindowFull(rule, count)]

\* The predicates a decision's reason object offers.
ReasonMethods == {"isBot", "isShield", "isRateLimit"}

ReasonFlag(result, method) ==
    CASE method = "isBot"       -> result.bot
      [] method = "isShield"    -> result.shield
      [] method = "isRateLimit" -> result.rateLimit

\* decision.isDenied() && decision.reason.<method>(): "true", "false", or
\* "TypeError" when the reason object has no such method.
DeniedAnd(result, method) ==
    IF ~result.denied THEN "false"
    ELSE IF method \notin ReasonMethods THEN "TypeError"
    ELSE IF ReasonFlag(result, method) THEN "true" ELSE "false"

(***************************************************************************)
(* securityMiddleware, from the settled provider call to its end           *)
(***************************************************************************)
\* A catch block that classifies the failure as a denial.
SecurityCatchAsDeny ==
    << EvWarn("Rate limit exceeded"), EvJson(403, "Too many requests.") >>

\* A catch block that fails open: the error is logged and the request goes on.
SecurityCatchFailOpen ==
    << EvConsoleError("Arcjet middleware error:"), EvNext >>

SecurityCatch ==
    << EvConsoleError("Arcjet middleware error:"),
       EvJson(500, "Something went wrong with security middleware") >>

\* The bot branch without its `return`: the 403 is followed by next().
securityMiddlewareResumeNoReturn(result) ==
    IF result.threw THEN SecurityCatch
    ELSE IF DeniedAnd(result, "isBot") = "true"
    THEN << EvWarn("Bot request blocked"),
            EvJson(403, "Automated requests are not allowed."), EvNext >>
    ELSE IF result.denied THEN SecurityCatch
    ELSE << EvNext >>

securityMiddlewareResume(result) ==
    IF result.threw THEN SecurityCatch
    ELSE LET isBot == DeniedAnd(result, "isBot") IN
    IF isBot = "TypeError" THEN SecurityCatch
    ELSE IF isBot = "true"
    THEN << EvWarn("Bot request blocked"),
            EvJson(403, "Automated requests are not allowed.") >>
    ELSE LET isSheild == DeniedAnd(result, "isSheild") IN
    IF isSheild = "TypeError" THEN SecurityCatch
    ELSE IF isSheild = "true"
    THEN << EvWarn("Shield blocked request"),
            EvJson(403, "Request blocked by security policy.") >>
    ELSE LET isRateLimit == DeniedAnd(result, "isRateLimit") IN
    IF isRateLimit = "TypeError" THEN SecurityCatch
    ELSE IF isRateLimit = "true"
    THEN << EvWarn("Rate limit exceeded"),
            EvJson(403, "Too many requests.") >>
    ELSE << EvNext >>

(***************************************************************************)
(* The users table and the routes behind the two middlewares                *)
(***************************************************************************)
StoredIds == {1, 2}

InitialUsers ==
    [i \in StoredIds |->
        IF i = 1
        THEN Some([name |-> "Alice", email |-> "admin@x.io", role |-> "admin"])
        ELSE Some([name |-> "Bob", email |-> "user@x.io", role |-> "user"])]

EvService(name) == [kind |-> "service", code |-> 0, text |-> name]

NoBody == [name |-> Undefined, role |-> Undefined]

\* userIdSchema: a string of digits, parsed to a number; none when the
\* validation fails.
ParseId(param) ==
    CASE param = "1" -> Some(1)
      [] param = "2" -> Some(2)
      [] param = "7" -> Some(7)
      [] OTHER       -> Undefined

\* updateUserSchema: a name of at least 2 characters, a role that is user or
\* admin, and at least one field given.
ValidUpdate(body) ==
    /\ IsDefined(body.name) => ValueOf(body.name) \notin {"", "B"}
    /\ IsDefined(body.role) => ValueOf(body.role) \in {"user", "admin"}
    /\ IsDefined(body.name) \/ IsDefined(body.role)

\* The handlers Express runs for a request, in order.
MatchRoute(target) ==
    CASE target.path = "/api/users" /\ target.method = "GET"
             -> << "fetchAllUsers" >>
      [] target.path = "/api/users/:id" /\ target.method = "GET"
             -> << "requireAuth", "getUserById" >>
      [] target.path = "/api/users/:id" /\ target.method = "PUT"
             -> << "requireAuth", "updateUser" >>
      [] target.path = "/api/users/:id" /\ target.method = "DELETE"
             -> << "requireAuth", "deleteUser" >>
      [] OTHER -> << "notFound" >>

\* A guard that lets every request through.
requireAuthLax(user) == << EvNext >>

requireAuth(user) ==
    IF ~IsDefined(user)
    THEN << EvJson(401, "Authentication required") >>
    ELSE << EvNext >>

\* Number(requester.id) === id
IsSelf(user, id) == ValueOf(user).id = id

\* The controllers up to their call of the service: the response they send,
\* or the call.
getUserById(user, target) ==
    LET id == ParseId(target.id) IN
    IF ~IsDefined(id) THEN << EvJson(400, "Validation failed") >>
    ELSE LET isAdmin == IsDefined(user) /\ ValueOf(user).role = "admin"
             isSelf == IsDefined(user) /\ IsSelf(user, ValueOf(id))
         IN  IF ~isAdmin /\ ~isSelf
             THEN << EvJson(403, "You can only access your own user information") >>
             ELSE << EvService("getUserById") >>

\* A controller without the test that only an admin may send a role.
updateUserNoRoleCheck(user, target) ==
    LET id == ParseId(target.id) IN
    IF ~IsDefined(id) THEN << EvJson(400, "Validation failed") >>
    ELSE IF ~ValidUpdate(target.body) THEN << EvJson(400, "Validation failed") >>
    ELSE IF ~IsDefined(user) THEN << EvJson(401, "Unauthorized") >>
    ELSE LET isAdmin == ValueOf(user).role = "admin"
             isSelf == IsSelf(user, ValueOf(id))
         IN  IF ~isAdmin /\ ~isSelf
             THEN << EvJson(403, "You can only change your own information") >>
             ELSE << EvService("updateUser") >>

updateUser(user, target) ==
    LET id == ParseId(target.id) IN
    IF ~IsDefined(id) THEN << EvJson(400, "Validation failed") >>
    ELSE IF ~ValidUpdate(target.body) THEN << EvJson(400, "Validation failed") >>
    ELSE IF ~IsDefined(user) THEN << EvJson(401, "Unauthorized") >>
    ELSE LET isAdmin == ValueOf(user).role = "admin"
             isSelf == IsSelf(user, ValueOf(id))
         IN  IF ~isAdmin /\ ~isSelf
             THEN << EvJson(403, "You can only change your own information") >>
             ELSE IF ~isAdmin /\ IsDefined(target.body.role)
             THEN << EvJson(403, "Only admin users can change roles") >>
             ELSE << EvService("updateUser") >>

\* A controller that lets every authenticated principal delete any user.
deleteUserNoOwnerCheck(user, target) ==
    LET id == ParseId(target.id) IN
    IF ~IsDefined(id) THEN << EvJson(400, "Validation failed") >>
    ELSE IF ~IsDefined(user) THEN << EvJson(401, "Unauthorized") >>
    ELSE << EvService("deleteUser") >>

deleteUser(user, target) ==
    LET id == ParseId(target.id) IN
    IF ~IsDefined(id) THEN << EvJson(400, "Validation failed") >>
    ELSE IF ~IsDefined(user) THEN << EvJson(401, "Unauthorized") >>
    ELSE LET isAdmin == ValueOf(user).role = "admin"
             isSelf == IsSelf(user, ValueOf(id))
         IN  IF ~isAdmin /\ ~isSelf
             THEN << EvJson(403, "You can only delete your own account") >>
             ELSE << EvService("deleteUser") >>

\* .set({...updates}): the row with the given fields replaced.
ApplyUpdates(row, body) ==
    [row EXCEPT !.name = IF IsDefined(body.name) THEN ValueOf(body.name) ELSE @,
                !.role = IF IsDefined(body.role) THEN ValueOf(body.role) ELSE @]

\* select ... where id = ... limit 1: whether a row was found.
RowExists(id) == id \in StoredIds /\ IsDefined(db[id])

(***************************************************************************)
(* Requests and steps                                                      *)
(***************************************************************************)
\* A request as it arrives; `target` is its method, path and body when the
\* handlers behind the two middlewares are followed, and none otherwise;
\* `rows` is the number of rows the write of its service returned.
NewRequest(in) ==
    [pc |-> "attach", cookie |-> in.cookie, auth |-> in.auth,
     user |-> Undefined, attachOut |-> << >>,
     rule |-> Undefined, calls |-> 0, result |-> NoResult, out |-> << >>,
     target |-> Undefined, chain |-> << >>, routeOut |-> << >>, rows |-> 0]

Init ==
    /\ req \in [Conns -> {NewRequest(in) : in \in RequestInputs}]
    /\ hits = [k \in RuleKeys |-> 0]
    /\ db = InitialUsers

\* app.use(attachUserFromToken)
AttachUserFromToken(c) ==
    /\ req[c].pc = "attach"
    /\ LET a == attachUserFromToken(req[c].cookie, req[c].auth) IN
       req' = [req EXCEPT ![c].user = a.user, ![c].attachOut = a.out,
                          ![c].pc = IF CountKind(a.out, "next") > 0
                                    THEN "security" ELSE "done"]
    /\ UNCHANGED << hits, db >>

\* app.use(securityMiddleware): the role, the limit, the rule, and the call of
\* client.protect(req), where the handler is suspended.
SecurityMiddleware(c) ==
    /\ req[c].pc = "security"
    /\ LET s == securityMiddlewareStart(req[c].user) IN
       req' = [req EXCEPT ![c].user = s.user, ![c].rule = s.rule,
                          ![c].calls = @ + 1, ![c].pc = "await"]
    /\ UNCHANGED << hits, db >>

\* The provider settles the call: it fails, or it decides; a request that
\* finds room in the window takes a place in it.
Protect(c) ==
    /\ req[c].pc = "await"
    /\ LET rule == ValueOf(req[c].rule)
           k == RuleKey(rule) IN
       \E fails \in BOOLEAN, bot \in BOOLEAN, shield \in BOOLEAN :
          /\ req' = [req EXCEPT ![c].result =
                           ProtectResult(fails, bot, shield, rule, hits[k]),
                                ![c].pc = "resume"]
          /\ hits' = IF ~fails /\ IsDefined(rule.max) /\ ~WindowFull(rule, hits[k])
                     THEN [hits EXCEPT ![k] = @ + 1]
                     ELSE hits
          /\ UNCHANGED db

\* The rest of securityMiddleware, after the await.
SecurityMiddlewareResume(c) ==
    /\ req[c].pc = "resume"
    /\ LET out == securityMiddlewareResume(req[c].result)
           forwarded == CountKind(out, "next") > 0 /\ IsDefined(req[c].target)
       IN
       req' = [req EXCEPT ![c].out = out,
                          ![c].chain = IF forwarded
                                       THEN MatchRoute(ValueOf(req[c].target))
                                       ELSE << >>,
                          ![c].pc = IF forwarded THEN "route" ELSE "done"]
    /\ UNCHANGED << hits, db >>

\* The oldest request counted in a window leaves it as time passes.
WindowSlides(k) ==
    /\ hits[k] > 0
    /\ hits' = [hits EXCEPT ![k] = @ - 1]
    /\ UNCHANGED << req, db >>

\* The request is over; the connection carries its next request.
NextRequest(c) ==
    /\ req[c].pc = "done"
    /\ \E in \in RequestInputs : req' = [req EXCEPT ![c] = NewRequest(in)]
    /\ UNCHANGED << hits, db >>

Next ==
    \/ \E c \in Conns : AttachUserFromToken(c)
    \/ \E c \in Conns : SecurityMiddleware(c)
    \/ \E c \in Conns : Protect(c)
    \/ \E c \in Conns : SecurityMiddlewareResume(c)
    \/ \E c \in Conns : NextRequest(c)
    \/ \E k \in RuleKeys : WindowSlides(k)

Spec == Init /\ [][Next]_vars

(***************************************************************************)
(* The whole application: the two middlewares, then the user routes on the *)
(* users table.                                                            *)
(***************************************************************************)
AppCredentials ==
    {[cookie |-> Undefined, auth |-> Undefined],
     [cookie |-> Undefined, auth |-> Some([prefix |-> "Bearer ", rest |-> "tokExpired"])],
     [cookie |-> Undefined, auth |-> Some([prefix |-> "Bearer ", rest |-> "tokUser"])],
     [cookie |-> Some("tokAdmin"), auth |-> Undefined]}

AppTargets ==
    {[method |-> "GET", path |-> "/api/users", id |-> "", body |-> NoBody],
     [method |-> "GET", path |-> "/api/users/:id", id |-> "2", body |-> NoBody],
     [method |-> "PUT", path |-> "/api/users/:id", id |-> "2",
      body |-> [name |-> Some("Bobby"), role |-> Undefined]],
     [method |-> "PUT", path |-> "/api/users/:id", id |-> "2",
      body |-> [name |-> Some("Bobby"), role |-> Some("admin")]],
     [method |-> "DELETE", path |-> "/api/users/:id", id |-> "2", body |-> NoBody],
     [method |-> "GET", path |-> "/nope", id |-> "", body |-> NoBody]}

NewAppRequest(cred, target) ==
    [NewRequest(cred) EXCEPT !.target = Some(target)]

AppRequests == {NewAppRequest(cr, t) : cr \in AppCredentials, t \in AppTargets}

InitApp ==
    /\ req \in [Conns -> AppRequests]
    /\ hits = [k \in RuleKeys |-> 0]
    /\ db = InitialUsers

\* The provider settles the call while other clients fill and leave its
\* window: it fails, or it decides, finding a bot or not and the window full
\* or not.  (The shield denials are followed in Spec.)
ProtectUnderLoad(c) ==
    /\ req[c].pc = "await"
    /\ \E fails \in BOOLEAN, bot \in BOOLEAN, count \in {0, AdminLimit} :
          req' = [req EXCEPT ![c].result =
                      ProtectResult(fails, bot, FALSE, ValueOf(req[c].rule), count),
                             ![c].pc = "resume"]
    /\ UNCHANGED << hits, db >>

AtHandler(c, name) ==
    /\ req[c].pc = "route"
    /\ req[c].chain # << >>
    /\ Head(req[c].chain) = name

\* A handler's events are recorded; it ends the request unless it called
\* next() (the next handler runs) or a service (the handler is suspended).
AfterHandler(c, evs) ==
    [req EXCEPT ![c].routeOut = @ \o evs,
                ![c].chain = IF CountKind(evs, "next") > 0 THEN Tail(@) ELSE @,
                ![c].pc = IF CountKind(evs, "next") > 0 THEN "route"
                          ELSE IF CountKind(evs, "service") > 0 THEN "select"
                          ELSE "done"]

\* router.get/put/delete("/:id", requireAuth, ...)
RequireAuth(c) ==
    /\ AtHandler(c, "requireAuth")
    /\ req' = AfterHandler(c, requireAuth(req[c].user))
    /\ UNCHANGED << hits, db >>

FetchAllUsers(c) ==
    /\ AtHandler(c, "fetchAllUsers")
    /\ req' = AfterHandler(c, << EvService("getAllUsers") >>)
    /\ UNCHANGED << hits, db >>

GetUserById(c) ==
    /\ AtHandler(c, "getUserById")
    /\ req' = AfterHandler(c, getUserById(req[c].user, ValueOf(req[c].target)))
    /\ UNCHANGED << hits, db >>

UpdateUser(c) ==
    /\ AtHandler(c, "updateUser")
    /\ req' = AfterHandler(c, updateUser(req[c].user, ValueOf(req[c].target)))
    /\ UNCHANGED << hits, db >>

DeleteUser(c) ==
    /\ AtHandler(c, "deleteUser")
    /\ req' = AfterHandler(c, deleteUser(req[c].user, ValueOf(req[c].target)))
    /\ UNCHANGED << hits, db >>

\* app.use((req, res) => res.status(404)...)
NotFound(c) ==
    /\ AtHandler(c, "notFound")
    /\ req' = AfterHandler(c, << EvJson(404, "Route not found") >>)
    /\ UNCHANGED << hits, db >>

\* The service a suspended controller is waiting for, and the id it acts on.
ServiceOf(c) == Head(req[c].chain)
TargetId(c) == ValueOf(ParseId(ValueOf(req[c].target).id))

\* The first query of the service returns: the rows for the reads, the
\* existence check for updateUser and deleteUser, whose absence is thrown as
\* 'User not found' and answered 404 by the controller.
ServiceSelect(c) ==
    /\ req[c].pc = "select"
    /\ LET respond(evs) == [req EXCEPT ![c].routeOut = @ \o evs, ![c].pc = "done"]
       IN
       req' = CASE ServiceOf(c) = "fetchAllUsers"
                     -> respond(<< EvJson(200, "Successfully retrieved users") >>)
                [] ServiceOf(c) = "getUserById"
                     -> IF RowExists(TargetId(c))
                        THEN respond(<< EvJson(200, "Successfully retrieved user") >>)
                        ELSE respond(<< EvJson(404, "User not found") >>)
                [] OTHER
                     -> IF RowExists(TargetId(c))
                        THEN [req EXCEPT ![c].pc = "write"]
                        ELSE respond(<< EvJson(404, "User not found") >>)
    /\ UNCHANGED << hits, db >>

\* The second query of updateUser and deleteUser runs: the row, if it is still
\* there, is changed or removed and returned; the controller reports success
\* whatever was returned.
ServiceWrite(c) ==
    /\ req[c].pc = "write"
    /\ LET id == TargetId(c) IN
       IF ServiceOf(c) = "updateUser"
       THEN /\ db' = IF RowExists(id)
                     THEN [db EXCEPT ![id] =
                             Some(ApplyUpdates(ValueOf(@), ValueOf(req[c].target).body))]
                     ELSE db
            /\ req' = [req EXCEPT ![c].routeOut =
                                    @ \o << EvJson(200, "User updated successfully") >>,
                                  ![c].rows = IF RowExists(id) THEN 1 ELSE 0,
                                  ![c].pc = "done"]
       ELSE /\ db' = IF RowExists(id) THEN [db EXCEPT ![id] = Undefined] ELSE db
            /\ req' = [req EXCEPT ![c].routeOut =
                                    @ \o << EvJson(200, "User deleted successfully") >>,
                                  ![c].rows = IF RowExists(id) THEN 1 ELSE 0,
                                  ![c].pc = "done"]
    /\ UNCHANGED hits

NextAppRequest(c) ==
    /\ req[c].pc = "done"
    /\ \E r \in AppRequests : req' = [req EXCEPT ![c] = r]
    /\ UNCHANGED << hits, db >>

NextApp ==
    \/ \E c \in Conns : AttachUserFromToken(c)
    \/ \E c \in Conns : SecurityMiddleware(c)
    \/ \E c \in Conns : ProtectUnderLoad(c)
    \/ \E c \in Conns : SecurityMiddlewareResume(c)
    \/ \E c \in Conns : RequireAuth(c)
    \/ \E c \in Conns : FetchAllUsers(c)
    \/ \E c \in Conns : GetUserById(c)
    \/ \E c \in Conns : UpdateUser(c)
    \/ \E c \in Conns : DeleteUser(c)
    \/ \E c \in Conns : NotFound(c)
    \/ \E c \in Conns : ServiceSelect(c)
    \/ \E c \in Conns : ServiceWrite(c)
    \/ \E c \in Conns : NextAppRequest(c)

SpecApp == InitApp /\ [][NextApp]_vars

(***************************************************************************)
(* The routes on one user, /api/users/:id, called by the holders of a user *)
(* token and of an admin token on either stored user.                      *)
(***************************************************************************)
UserCredentials ==
    {[cookie |-> Undefined, auth |-> Some([prefix |-> "Bearer ", rest |-> "tokUser"])],
     [cookie |-> Some("tokAdmin"), auth |-> Undefined]}

UserTargets ==
    {[method |-> "GET", path |-> "/api/users/:id", id |-> "1", body |-> NoBody],
     [method |-> "PUT", path |-> "/api/users/:id", id |-> "1",
      body |-> [name |-> Some("Alicia"), role |-> Undefined]],
     [method |-> "PUT", path |-> "/api/users/:id", id |-> "1",
      body |-> [name |-> Some("B"), role |-> Undefined]],
     [method |-> "DELETE", path |-> "/api/users/:id", id |-> "1", body |-> NoBody],
     [method |-> "PUT", path |-> "/api/users/:id", id |-> "2",
      body |-> [name |-> Some("Bobby"), role |-> Undefined]],
     [method |-> "PUT", path |-> "/api/users/:id", id |-> "2",
      body |-> [name |-> Some("Bobby"), role |-> Some("admin")]],
     [method |-> "PUT", path |-> "/api/users/:id", id |-> "2",
      body |-> [name |-> Some("Bobby"), role |-> Some("owner")]],
     [method |-> "DELETE", path |-> "/api/users/:id", id |-> "2", body |-> NoBody]}

UserRequests == {NewAppRequest(cr, t) : cr \in UserCredentials, t \in UserTargets}

InitUsers ==
    /\ req \in [Conns -> UserRequests]
    /\ hits = [k \in RuleKeys |-> 0]
    /\ db = InitialUsers

NextUserRequest(c) ==
    /\ req[c].pc = "done"
    /\ \E r \in UserRequests : req' = [req EXCEPT ![c] = r]
    /\ UNCHANGED << hits, db >>

NextUsers ==
    \/ \E c \in Conns : AttachUserFromToken(c)
    \/ \E c \in Conns : SecurityMiddleware(c)
    \/ \E c \in Conns : ProtectUnderLoad(c)
    \/ \E c \in Conns : SecurityMiddlewareResume(c)
    \/ \E c \in Conns : RequireAuth(c)
    \/ \E c \in Conns : GetUserById(c)
    \/ \E c \in Conns : UpdateUser(c)
    \/ \E c \in Conns : DeleteUser(c)
    \/ \E c \in Conns : ServiceSelect(c)
    \/ \E c \in Conns : ServiceWrite(c)
    \/ \E c \in Conns : NextUserRequest(c)

SpecUsers == InitUsers /\ [][NextUsers]_vars

(***************************************************************************)
(* Properties                                                              *)
(***************************************************************************)
Nexts(evs) == CountKind(evs, "next")
Responses(evs) == CountKind(evs, "json")
HasEvent(evs, e) == \E i \in 1..Len(evs) : evs[i] = e
Finished(c) == req[c].pc = "done"
\* The provider answered the request on c with a denied decision.
Denied(c) == ~req[c].result.threw /\ req[c].result.denied
Settled(c) == req[c].pc \in {"resume", "done"}

\* The message the specification gives for a denied decision, by priority.
DenyMessage(result) ==
    IF result.bot THEN "Automated requests are not allowed."
    ELSE IF result.shield THEN "Request blocked by security policy."
    ELSE "Too many requests."

\* C1: every denied decision (bot, shield or rate-limit) is answered with
\* status 403 and the message of its reason.
C1_DenyAnswers403 ==
    \A c \in Conns :
        (Finished(c) /\ Denied(c))
            => HasEvent(req[c].out, EvJson(403, DenyMessage(req[c].result)))

\* The role of the principal: the role of req.user, guest when there is none.
PrincipalRole(c) ==
    IF IsDefined(req[c].user) THEN ValueOf(req[c].user).role ELSE "guest"

\* C2: a principal whose role is neither admin nor user is given the guest
\* tier: the rule submitted has max = 5 and a 1-minute interval.
C2_UnmappedRoleIsGuest ==
    \A c \in Conns :
        (IsDefined(req[c].rule) /\ PrincipalRole(c) \notin {"admin", "user"})
            => /\ ValueOf(req[c].rule).max = Some(5)
               /\ ValueOf(req[c].rule).interval = "1m"

\* C3: securityMiddleware ends in exactly one outcome, next() once or one 403
\* or one 500 response, never two and never none, produces none before it
\* ends, and does not forward a denied decision.
C3_OneOutcome ==
    \A c \in Conns :
        LET out == req[c].out IN
        /\ ~Finished(c) => out = << >>
        /\ Finished(c) =>
              /\ Nexts(out) + Responses(out) = 1
              /\ \A i \in 1..Len(out) :
                     out[i].kind = "json" => out[i].code \in {403, 500}
              /\ Denied(c) => Nexts(out) = 0

C3_Witness ==
    \E c \in Conns :
        /\ Finished(c) /\ Denied(c) /\ req[c].result.bot
        /\ Responses(req[c].out) = 1 /\ Nexts(req[c].out) = 0

\* C4: next() is called by securityMiddleware only on an allowed decision,
\* never on a denied decision and never on a provider failure.
C4_NextOnlyOnAllow ==
    \A c \in Conns :
        Nexts(req[c].out) > 0 => (~req[c].result.threw /\ ~req[c].result.denied)

C4_Witness ==
    \E c \in Conns, d \in Conns :
        /\ Finished(c) /\ req[c].result.threw /\ Nexts(req[c].out) = 0
        /\ Finished(d) /\ Denied(d) /\ ~req[d].result.bot /\ Nexts(req[d].out) = 0

\* C5: attachUserFromToken calls next() exactly once and writes no response,
\* whatever credential the request carries.
C5_AttachNeverRejects ==
    \A c \in Conns :
        req[c].pc # "attach"
            => /\ Nexts(req[c].attachOut) = 1
               /\ Responses(req[c].attachOut) = 0

C5_Witness ==
    \E c \in Conns, d \in Conns :
        /\ req[c].pc # "attach" /\ Nexts(req[c].attachOut) = 1
        /\ req[c].auth = Some([prefix |-> "Bearer ", rest |-> "tokTampered"])
        /\ req[c].cookie = Undefined
        /\ req[d].pc # "attach" /\ Nexts(req[d].attachOut) = 1
        /\ req[d].auth = Some([prefix |-> "Bearer ", rest |-> "tokExpired"])
        /\ req[d].cookie = Undefined

\* The token the resolver consults on c, undefined when the request has none.
PresentedToken(c) == ExtractToken(req[c].cookie, req[c].auth)
NoCredential(c) == req[c].cookie = Undefined /\ req[c].auth = Undefined
FailingCredential(c) ==
    Truthy(PresentedToken(c)) /\ ValueOf(PresentedToken(c)) \in InvalidTokens

\* C6: a request whose token fails verification is treated like a request
\* with no credential: req.user is undefined for both, both are given the same
\* rule (the guest tier), and under the same provider answer both get the same
\* outcome from securityMiddleware.
C6_InvalidLikeAbsent ==
    \A c \in Conns, d \in Conns :
        (NoCredential(c) /\ FailingCredential(d)) =>
            /\ (req[c].pc # "attach" /\ req[d].pc # "attach")
                  => (req[d].user = Undefined /\ req[d].user = req[c].user)
            /\ (IsDefined(req[c].rule) /\ IsDefined(req[d].rule))
                  => (req[d].rule = req[c].rule
                      /\ ValueOf(req[d].rule).max = Some(5))
            /\ (Finished(c) /\ Finished(d) /\ req[c].result = req[d].result)
                  => req[d].out = req[c].out

C6_Witness ==
    \E c \in Conns, d \in Conns :
        /\ NoCredential(c) /\ FailingCredential(d)
        /\ Finished(c) /\ Finished(d)
        /\ req[c].result = req[d].result /\ ~req[c].result.threw
        /\ req[d].out = req[c].out
        /\ req[d].attachOut # req[c].attachOut

\* The limits of the tier table, per role.
TierMax(role) ==
    CASE role = "admin" -> 20
      [] role = "user"  -> 10
      [] role = "guest" -> 5

KnownTier(c) == PrincipalRole(c) \in {"admin", "user", "guest"}

\* The rule submitted for a known role has the table's limit over one minute.
C7_RuleOfTier ==
    \A c \in Conns :
        (IsDefined(req[c].rule) /\ KnownTier(c))
            => /\ ValueOf(req[c].rule).max = Some(TierMax(PrincipalRole(c)))
               /\ ValueOf(req[c].rule).interval = "1m"

\* A request the provider finds within its window, with no other ground for
\* denial, is forwarded; one that finds the window full is not.
C7_ForwardedIffWithin ==
    \A c \in Conns :
        (Finished(c) /\ KnownTier(c) /\ ~req[c].result.threw
           /\ ~req[c].result.bot /\ ~req[c].result.shield)
            => (Nexts(req[c].out) = 1 <=> ~req[c].result.rateLimit)

\* The provider, enforcing the submitted window, finds the window full exactly
\* when the count on the rule's key has reached the table's limit of the role.
C7_FullAtLimit ==
    \A c \in Conns :
        (req[c].pc = "await" /\ req'[c].pc = "resume"
           /\ ~req'[c].result.threw /\ KnownTier(c))
            => (req'[c].result.rateLimit
                  <=> hits[RuleKey(ValueOf(req[c].rule))] >= TierMax(PrincipalRole(c)))

\* C7: the limit submitted is 20 for admin, 10 for user and 5 for guest over a
\* 1-minute window, and with a provider enforcing that window the request that
\* is the limit-th in the window is forwarded and the next one is not.
C7_TierLimits ==
    /\ [](C7_RuleOfTier /\ C7_ForwardedIffWithin)
    /\ [][C7_FullAtLimit]_vars

C7_Witness ==
    \E c \in Conns, d \in Conns :
        /\ Finished(c) /\ PrincipalRole(c) = "admin"
        /\ ~req[c].result.bot /\ ~req[c].result.shield /\ ~req[c].result.threw
        /\ ~req[c].result.rateLimit /\ Nexts(req[c].out) = 1
        /\ Finished(d) /\ PrincipalRole(d) = "admin"
        /\ ~req[d].result.bot /\ ~req[d].result.shield /\ ~req[d].result.threw
        /\ req[d].result.rateLimit /\ Nexts(req[d].out) = 0
        /\ hits[RuleKey(ValueOf(req[d].rule))] = 20

\* C8: with a valid admin token, a request within the limit of 20 is forwarded
\* and the one that finds the window full (the 21st) is answered 403 with the
\* rate-limit message, the warning logged before the response.
C8_AdminTwentyFirst ==
    \A c \in Conns :
        (Finished(c) /\ PresentedToken(c) = Some("tokAdmin")
           /\ ~req[c].result.threw /\ ~req[c].result.bot /\ ~req[c].result.shield)
            => IF req[c].result.rateLimit
               THEN req[c].out = << EvWarn("Rate limit exceeded"),
                                    EvJson(403, "Too many requests.") >>
               ELSE req[c].out = << EvNext >>

\* C9: the rules built for two different tiers carry different keys.
C9_DistinctKeys ==
    \A c \in Conns, d \in Conns :
        (IsDefined(req[c].rule) /\ IsDefined(req[d].rule)
           /\ KnownTier(c) /\ KnownTier(d)
           /\ PrincipalRole(c) # PrincipalRole(d))
            => RuleKey(ValueOf(req[c].rule)) # RuleKey(ValueOf(req[d].rule))

\* The deny messages that appear in the responses of a request.
ReportedReasons(evs) ==
    {m \in {"Automated requests are not allowed.",
            "Request blocked by security policy.",
            "Too many requests."} :
        \E i \in 1..Len(evs) : evs[i].kind = "json" /\ evs[i].text = m}

\* C10: every denied decision is reported with exactly one reason, the first
\* flagged in the order bot, shield, rate-limit, in exactly one response after
\* exactly one warning.
C10_OneReasonByPriority ==
    \A c \in Conns :
        (Finished(c) /\ Denied(c)) =>
            /\ ReportedReasons(req[c].out) = {DenyMessage(req[c].result)}
            /\ Responses(req[c].out) = 1
            /\ CountKind(req[c].out, "warn") = 1

GenericFailure ==
    << EvConsoleError("Arcjet middleware error:"),
       EvJson(500, "Something went wrong with security middleware") >>

\* C11: when the provider call fails, securityMiddleware has called the
\* provider once and does not call it again, logs the error and answers 500
\* with the generic message, and neither answers 403 nor calls next().
C11_FailureIs500NoRetry ==
    \A c \in Conns :
        (Settled(c) /\ req[c].result.threw) =>
            /\ req[c].calls = 1
            /\ Finished(c) => req[c].out = GenericFailure

C11_Witness ==
    \E c \in Conns :
        /\ Finished(c) /\ req[c].result.threw
        /\ req[c].calls = 1 /\ req[c].out = GenericFailure

\* C13: attachUserFromToken logs exactly one warning when a present token
\* fails verification and logs nothing when there is no token or the token is
\* verified.
C13_WarnOnlyOnFailure ==
    \A c \in Conns :
        req[c].pc # "attach" =>
            /\ CountKind(req[c].attachOut, "warn")
                  = (IF FailingCredential(c) THEN 1 ELSE 0)
            /\ \A i \in 1..Len(req[c].attachOut) :
                  req[c].attachOut[i].kind \in {"warn", "next"}

C13_Witness ==
    \E c \in Conns, d \in Conns :
        /\ req[c].pc # "attach" /\ FailingCredential(c)
        /\ CountKind(req[c].attachOut, "warn") = 1
        /\ req[d].pc # "attach" /\ ~FailingCredential(d)
        /\ req[d].attachOut = << EvNext >>

\* The principal a token resolves to: its claims when it verifies, none
\* otherwise.
PrincipalOf(token) ==
    IF Truthy(token) /\ ValueOf(token) \in ValidTokens
    THEN Some(TokenPayload(ValueOf(token)))
    ELSE Undefined

BearerToken(auth) ==
    IF IsDefined(auth) /\ ValueOf(auth).prefix = "Bearer "
    THEN Some(ValueOf(auth).rest) ELSE Undefined

\* C14: the cookie is consulted first and the Bearer header only when the
\* cookie is absent or empty; one source decides, so a non-empty cookie that
\* fails verification gives an anonymous request whatever the header carries.
C14_CookieBeforeHeader ==
    \A c \in Conns :
        req[c].pc # "attach" =>
            /\ req[c].user = (IF Truthy(req[c].cookie)
                              THEN PrincipalOf(req[c].cookie)
                              ELSE PrincipalOf(BearerToken(req[c].auth)))
            /\ CountKind(req[c].attachOut, "warn") <= 1

C14_Witness ==
    \E c \in Conns :
        /\ req[c].pc # "attach"
        /\ req[c].cookie = Some("tokExpired")
        /\ req[c].auth = Some([prefix |-> "Bearer ", rest |-> "tokAdmin"])
        /\ req[c].user = Undefined

\* C15: a valid credential resolves to a principal whose id, email and role
\* are the token's claims, and two requests presenting the same valid
\* credential resolve to the same principal.
C15_PrincipalFromClaims ==
    \A c \in Conns, d \in Conns :
        (req[c].pc # "attach" /\ Truthy(PresentedToken(c))
           /\ ValueOf(PresentedToken(c)) \in ValidTokens) =>
            /\ IsDefined(req[c].user)
            /\ ValueOf(req[c].user).id = TokenPayload(ValueOf(PresentedToken(c))).id
            /\ ValueOf(req[c].user).email = TokenPayload(ValueOf(PresentedToken(c))).email
            /\ ValueOf(req[c].user).role = TokenPayload(ValueOf(PresentedToken(c))).role
            /\ (req[d].pc # "attach" /\ PresentedToken(d) = PresentedToken(c))
                  => req[d].user = req[c].user

C15_Witness ==
    \E c \in Conns, d \in Conns :
        /\ c # d
        /\ req[c].pc = "done" /\ req[d].pc = "security"
        /\ req[c].cookie = Some("tokAdmin")
        /\ req[d].auth = Some([prefix |-> "Bearer ", rest |-> "tokAdmin"])
        /\ req[d].cookie = Undefined
        /\ PresentedToken(d) = PresentedToken(c)
        /\ req[d].user = req[c].user /\ IsDefined(req[c].user)

\* C17: a request with no cookie and no Authorization header resolves to no
\* principal, is given the role guest and is submitted under the guest tier of
\* 5 requests per minute.
C17_AnonymousIsGuest ==
    \A c \in Conns :
        NoCredential(c) =>
            /\ req[c].pc # "attach" => req[c].user = Undefined
            /\ IsDefined(req[c].rule) =>
                  /\ PrincipalRole(c) = "guest"
                  /\ ValueOf(req[c].rule).max = Some(5)
                  /\ ValueOf(req[c].rule).interval = "1m"

C17_Witness ==
    \E c \in Conns :
        /\ NoCredential(c) /\ Finished(c)
        /\ req[c].user = Undefined
        /\ ValueOf(req[c].rule).max = Some(5)
        /\ req[c].out = << EvNext >>

\* The limit of the tier of a role, undefined for a role outside the table.
TierLimitOf(role) ==
    IF role \in {"admin", "user", "guest"} THEN Some(TierMax(role)) ELSE Undefined

\* C18: under every interleaving of two requests, the principal of a request
\* is the one of its own credential, the limit submitted for it is the one of
\* its own principal, and its outcome is decided by its own provider answer.
C18_NoInterference ==
    \A c \in Conns, d \in Conns :
        /\ req[c].pc # "attach" => req[c].user = PrincipalOf(PresentedToken(c))
        /\ IsDefined(req[c].rule)
              => ValueOf(req[c].rule).max = TierLimitOf(PrincipalRole(c))
        /\ (Finished(c) /\ Finished(d) /\ req[c].result = req[d].result)
              => req[c].out = req[d].out

C18_Witness ==
    \E c \in Conns, d \in Conns :
        /\ req[c].pc = "resume" /\ PrincipalRole(c) = "guest"
        /\ ValueOf(req[c].rule).max = Some(5)
        /\ req[d].pc = "await" /\ PrincipalRole(d) = "admin"
        /\ ValueOf(req[d].rule).max = Some(20)

(***************************************************************************)
(* Properties of the whole application (SpecApp)                           *)
(***************************************************************************)
InRoutes(c) == req[c].pc \in {"route", "select", "write"} \/ req[c].routeOut # << >>
TargetIs(c, method, path) ==
    /\ IsDefined(req[c].target)
    /\ ValueOf(req[c].target).method = method
    /\ ValueOf(req[c].target).path = path

\* No handler and no service has run for a request whose provider call failed.
C12_NothingRan ==
    \A c \in Conns :
        (Settled(c) /\ req[c].result.threw)
            => (req[c].routeOut = << >> /\ req[c].chain = << >> /\ ~InRoutes(c))

\* The steps of a request whose provider call fails, the failure and what
\* securityMiddleware does after it, leave req.user and the users table as
\* they were.
C12_FailureChangesNothing ==
    \A c \in Conns :
        (req[c].pc \in {"await", "resume"} /\ req'[c] # req[c]
           /\ req'[c].result.threw)
            => (req'[c].user = req[c].user /\ db' = db)

\* C12: a provider failure leaves no partial change: req.user is as it was, no
\* route handler or service runs, and the request leaves the stored users as
\* they were.
C12_FailureLeavesNoChange ==
    /\ []C12_NothingRan
    /\ [][C12_FailureChangesNothing]_vars

C12_Witness ==
    \E c \in Conns :
        /\ Finished(c) /\ req[c].result.threw
        /\ TargetIs(c, "PUT", "/api/users/:id")
        /\ req[c].user = Some(TokenPayload("tokAdmin"))
        /\ req[c].routeOut = << >>
        /\ db = InitialUsers

\* C16: the stages run in order: attachUserFromToken has completed when
\* securityMiddleware reads the role (the rule is the one of the principal it
\* left), and securityMiddleware has completed with an allow when a route
\* handler, the requireAuth guard or the 404 handler runs.
C16_StagesInOrder ==
    \A c \in Conns :
        /\ IsDefined(req[c].rule) =>
              /\ Nexts(req[c].attachOut) = 1
              /\ ValueOf(req[c].rule).max = TierLimitOf(PrincipalRole(c))
        /\ InRoutes(c) =>
              /\ req[c].out = << EvNext >>
              /\ ~req[c].result.threw /\ ~req[c].result.denied

C16_Witness ==
    \E c \in Conns, d \in Conns :
        /\ Finished(c) /\ req[c].routeOut = << EvJson(404, "Route not found") >>
        /\ Finished(d) /\ req[d].routeOut = << EvJson(401, "Authentication required") >>
        /\ req[c].out = << EvNext >> /\ req[d].out = << EvNext >>

\* C19: after attachUserFromToken, no later stage of the same request changes
\* req.user or any of its fields.
C19_UserNeverMutated ==
    [][\A c \in Conns :
          (req[c].pc # "attach" /\ req'[c].pc # "attach")
              => req'[c].user = req[c].user]_vars

C19_Witness ==
    \E c \in Conns :
        /\ Finished(c)
        /\ req[c].user = Some(TokenPayload("tokUser"))
        /\ HasEvent(req[c].routeOut, EvJson(200, "User updated successfully"))

Anonymous(c) == req[c].pc # "attach" /\ req[c].user = Undefined

\* An anonymous PUT or DELETE on /api/users/:id is answered 401 by requireAuth
\* and reaches no service.
C20_AnonymousStopped ==
    \A c \in Conns :
        (Anonymous(c) /\ (TargetIs(c, "PUT", "/api/users/:id")
                            \/ TargetIs(c, "DELETE", "/api/users/:id"))) =>
            /\ CountKind(req[c].routeOut, "service") = 0
            /\ req[c].pc \notin {"select", "write"}
            /\ (Finished(c) /\ Nexts(req[c].out) = 1)
                  => req[c].routeOut = << EvJson(401, "Authentication required") >>

\* No step of an anonymous request changes the users table.
C20_AnonymousWritesNothing ==
    \A c \in Conns : (Anonymous(c) /\ req'[c] # req[c]) => db' = db

\* C20: no anonymous request modifies or deletes a stored user; on PUT and
\* DELETE /api/users/:id it is answered 401 by requireAuth and the service is
\* never called.
C20_AnonymousNeverWrites ==
    /\ []C20_AnonymousStopped
    /\ [][C20_AnonymousWritesNothing]_vars

C20_Witness ==
    \E c \in Conns, d \in Conns :
        /\ Finished(c) /\ NoCredential(c) /\ TargetIs(c, "DELETE", "/api/users/:id")
        /\ req[c].routeOut = << EvJson(401, "Authentication required") >>
        /\ Finished(d) /\ FailingCredential(d) /\ TargetIs(d, "PUT", "/api/users/:id")
        /\ req[d].routeOut = << EvJson(401, "Authentication required") >>
        /\ db = InitialUsers

(***************************************************************************)
(* Properties of the routes on one user (SpecUsers)                        *)
(***************************************************************************)
OnUserRoute(c) ==
    /\ IsDefined(req[c].target)
    /\ ValueOf(req[c].target).path = "/api/users/:id"
    /\ IsDefined(ParseId(ValueOf(req[c].target).id))

Forwarded(c) == req[c].out = << EvNext >>
CalledService(c) ==
    req[c].pc \in {"select", "write"} \/ CountKind(req[c].routeOut, "service") > 0
Answer(c) == req[c].routeOut[Len(req[c].routeOut)]
Answered(c) == Finished(c) /\ Forwarded(c) /\ req[c].routeOut # << >>

\* The principal is an admin or the user the request is about.
AdminOrSelf(c) ==
    /\ IsDefined(req[c].user)
    /\ (ValueOf(req[c].user).role = "admin" \/ ValueOf(req[c].user).id = TargetId(c))

\* An authenticated request on a user that is neither the principal's own nor
\* an admin's.
Stranger(c) ==
    /\ req[c].pc # "attach" /\ OnUserRoute(c)
    /\ IsDefined(req[c].user) /\ ~AdminOrSelf(c)

\* The request passes the validation that precedes the authorization test:
\* the body of a PUT satisfies updateUserSchema.
PassesValidation(c) ==
    ValueOf(req[c].target).method = "PUT" => ValidUpdate(ValueOf(req[c].target).body)

\* A stranger's request never reaches the service, and is answered 403, or
\* 400 when its body fails validation.
C21_StrangerRefused ==
    \A c \in Conns :
        Stranger(c) =>
            /\ ~CalledService(c)
            /\ Answered(c) =>
                  /\ Len(req[c].routeOut) = 2
                  /\ Answer(c).kind = "json"
                  /\ Answer(c).code = IF PassesValidation(c) THEN 403 ELSE 400

\* The service is called only for an admin or for the user the request is
\* about.
C21_OnlyAdminOrSelfActs ==
    \A c \in Conns : (OnUserRoute(c) /\ CalledService(c)) => AdminOrSelf(c)

\* No step of a stranger's request changes the users table, and a stored user
\* changes only by the write of a request of an admin or of that user.
C21_StoredChangeIsAuthorized ==
    /\ \A c \in Conns : (Stranger(c) /\ req'[c] # req[c]) => db' = db
    /\ \A x \in StoredIds :
          db'[x] # db[x] =>
              \E c \in Conns : /\ req[c].pc = "write" /\ req'[c].pc = "done"
                                /\ TargetId(c) = x /\ AdminOrSelf(c)

\* C21: getUserById, updateUser and deleteUser act on user X only for an admin
\* or for X itself; any other authenticated principal whose request passes
\* validation is answered 403 (400 when its body fails validation), the
\* service is not called and the stored users stay as they are.
C21_ActsOnlyForAdminOrSelf ==
    /\ []C21_StrangerRefused
    /\ []C21_OnlyAdminOrSelfActs
    /\ [][C21_StoredChangeIsAuthorized]_vars

C21_Witness ==
    \E c \in Conns, d \in Conns :
        /\ Finished(c) /\ req[c].user = Some(TokenPayload("tokUser"))
        /\ TargetIs(c, "DELETE", "/api/users/:id") /\ TargetId(c) = 1
        /\ req[c].routeOut =
               << EvNext, EvJson(403, "You can only delete your own account") >>
        /\ Finished(d) /\ req[d].user = Some(TokenPayload("tokUser"))
        /\ TargetIs(d, "PUT", "/api/users/:id") /\ TargetId(d) = 2
        /\ Answered(d) /\ Answer(d) = EvJson(200, "User updated successfully")
        /\ IsDefined(db[1]) /\ ValueOf(db[1]).name = "Alice"

\* The statement without the validation that comes first: every answered
\* request of a stranger is answered 403.
C21_StrangerAlways403 ==
    \A c \in Conns :
        (Stranger(c) /\ Answered(c)) => Answer(c).code = 403

\* An updateUser request of an authenticated principal that is no admin, with
\* a role field in its body.
RoleSender(c) ==
    /\ req[c].pc # "attach" /\ OnUserRoute(c)
    /\ ValueOf(req[c].target).method = "PUT"
    /\ IsDefined(ValueOf(req[c].target).body.role)
    /\ IsDefined(req[c].user) /\ ValueOf(req[c].user).role # "admin"

\* Such a request never reaches the service, and is answered 403, or 400 when
\* its body fails validation.
C22_RoleSenderRefused ==
    \A c \in Conns :
        RoleSender(c) =>
            /\ ~CalledService(c)
            /\ Answered(c) =>
                  /\ Answer(c).kind = "json"
                  /\ Answer(c).code = IF PassesValidation(c) THEN 403 ELSE 400

\* No step of such a request changes a stored field, and a stored role changes
\* only by the write of an updateUser request of an admin.
C22_RoleChangeIsByAdmin ==
    /\ \A c \in Conns : (RoleSender(c) /\ req'[c] # req[c]) => db' = db
    /\ \A x \in StoredIds :
          (IsDefined(db[x]) /\ IsDefined(db'[x])
             /\ ValueOf(db'[x]).role # ValueOf(db[x]).role) =>
              \E c \in Conns : /\ req[c].pc = "write" /\ req'[c].pc = "done"
                                /\ ServiceOf(c) = "updateUser" /\ TargetId(c) = x
                                /\ ValueOf(req[c].user).role = "admin"

\* C22: a stored role is changed only by updateUser requests of an admin; an
\* updateUser request of a non-admin principal with a role field is refused
\* (403, or 400 when the body fails validation) and leaves every stored field
\* as it was, the other fields of its body included.
C22_OnlyAdminChangesRole ==
    /\ []C22_RoleSenderRefused
    /\ [][C22_RoleChangeIsByAdmin]_vars

C22_Witness ==
    \E c \in Conns, d \in Conns :
        /\ Finished(c) /\ req[c].user = Some(TokenPayload("tokUser"))
        /\ ValueOf(req[c].target).body = [name |-> Some("Bobby"), role |-> Some("admin")]
        /\ req[c].routeOut =
               << EvNext, EvJson(403, "Only admin users can change roles") >>
        /\ db[2] = InitialUsers[2]
        /\ Finished(d) /\ req[d].user = Some(TokenPayload("tokAdmin"))
        /\ TargetIs(d, "PUT", "/api/users/:id") /\ TargetId(d) = 1
        /\ Answered(d) /\ Answer(d) = EvJson(200, "User updated successfully")

\* The statement without the validation that comes first: every answered
\* updateUser request of a non-admin principal with a role field is answered
\* 403.
C22_RoleSenderAlways403 ==
    \A c \in Conns :
        (RoleSender(c) /\ Answered(c)) => Answer(c).code = 403

\* The write of the service returned a row to the request.
WroteARow(c) == req[c].rows = 1

\* C23: under every interleaving of updateUser and deleteUser requests on one
\* id, a request that answers 'User updated successfully' or 'User deleted
\* successfully' has updated or deleted a row; when the row was removed by
\* the other request after the existence check, it does not report success.
C23_SuccessMeansWritten ==
    \A c \in Conns :
        (Answered(c) /\ Answer(c) \in {EvJson(200, "User updated successfully"),
                                       EvJson(200, "User deleted successfully")})
            => WroteARow(c)

\* The token the request presents verifies, and the claims it carries.
HoldsValidToken(c) ==
    Truthy(PresentedToken(c)) /\ ValueOf(PresentedToken(c)) \in ValidTokens
TokenClaims(c) == TokenPayload(ValueOf(PresentedToken(c)))
ClaimsAdminOrSelf(c) ==
    TokenClaims(c).role = "admin" \/ TokenClaims(c).id = TargetId(c)

\* The stored user of the token's id is gone, or has another role than the
\* token says.
StaleToken(c) ==
    /\ HoldsValidToken(c) /\ TokenClaims(c).id \in StoredIds
    /\ (IsDefined(db[TokenClaims(c).id])
           => ValueOf(db[TokenClaims(c).id]).role # TokenClaims(c).role)

\* C24: the principal, the rate-limit tier and the admin/self authorization
\* of a request are those of the claims of its token, whatever the users table
\* holds: after the stored role of the token's user is changed or the user is
\* deleted, the token still gives the old id and role.
C24_TokenClaimsDecide ==
    \A c \in Conns :
        (req[c].pc # "attach" /\ HoldsValidToken(c)) =>
            /\ req[c].user = Some(TokenClaims(c))
            /\ IsDefined(req[c].rule)
                  => ValueOf(req[c].rule).max = TierLimitOf(TokenClaims(c).role)
            /\ OnUserRoute(c) =>
                  /\ CalledService(c) => ClaimsAdminOrSelf(c)
                  /\ (Answered(c) /\ PassesValidation(c) /\ ~RoleSender(c))
                        => (ClaimsAdminOrSelf(c)
                              <=> CountKind(req[c].routeOut, "service") = 1)

\* The stored role of user 2 is now admin, and a request with the token issued
\* to user 2 is still a user's: tiered as a user and refused on user 1.
C24_Witness ==
    \E c \in Conns :
        /\ Finished(c) /\ PresentedToken(c) = Some("tokUser") /\ StaleToken(c)
        /\ IsDefined(db[2]) /\ ValueOf(db[2]).role = "admin"
        /\ req[c].user = Some(TokenPayload("tokUser"))
        /\ ValueOf(req[c].rule).max = Some(UserLimit)
        /\ TargetIs(c, "DELETE", "/api/users/:id") /\ TargetId(c) = 1
        /\ req[c].routeOut =
               << EvNext, EvJson(403, "You can only delete your own account") >>

\* User 2 is deleted, and a request with the token issued to user 2 is still
\* authorized as user 2: it reaches the service, which finds no row.
C24_WitnessDeleted ==
    \E c \in Conns :
        /\ Finished(c) /\ PresentedToken(c) = Some("tokUser") /\ StaleToken(c)
        /\ ~IsDefined(db[2])
        /\ req[c].user = Some(TokenPayload("tokUser"))
        /\ TargetIs(c, "PUT", "/api/users/:id") /\ TargetId(c) = 2
        /\ req[c].routeOut = << EvNext, EvService("updateUser"),
                                EvJson(404, "User not found") >>

====
